---- MODULE Spec2Model ----
(***************************************************************************)
(* Model of intra/protect/protect.go: the socket-protecting dialer and     *)
(* listener factories, the resolver-address rewrite (replaceIP) and the    *)
(* address-family matcher (scan).                                          *)
(*                                                                         *)
(* Go strings are modelled as sequences of one-character strings, so that  *)
(* strings.Split, net.SplitHostPort, net.JoinHostPort and net.ParseIP are  *)
(* computed character by character as the library computes them.           *)
(***************************************************************************)
EXTENDS Integers, Sequences, FiniteSets, TLC

VARIABLES
    protector,   \* the Protector handed to the factories (Nil for a nil one)
    dialer,      \* the *net.Dialer returned by MakeDialer(p)
    listenCfg,   \* the *net.ListenConfig returned by MakeListenConfig(p)
    calls,       \* per goroutine: the operation in progress and its locals
    sockets,     \* fd -> the socket opened by the net runtime
    nextFd,      \* next descriptor the kernel hands out
    fn           \* inputs and outputs of a direct call of scan / replaceIP

vars == <<protector, dialer, listenCfg, calls, sockets, nextFd, fn>>

Nil == "nil"

----------------------------------------------------------------------------
(* Bounds *)

MaxLen == 2      \* longest resolver list drawn for scan / replaceIP
MaxCalls == 2    \* concurrent goroutines using the dialer / listener
MaxAttempts == 2 \* resolver-connection attempts over a run
MaxSockets == 2  \* sockets the kernel hands out over a run

----------------------------------------------------------------------------
(* Strings *)

RECURSIVE IndexFrom(_, _, _)
\* smallest index >= i of character c in s, 0 when absent
IndexFrom(s, c, i) ==
    IF i > Len(s) THEN 0
    ELSE IF s[i] = c THEN i
    ELSE IndexFrom(s, c, i + 1)

IndexByte(s, c) == IndexFrom(s, c, 1)

RECURSIVE LastFrom(_, _, _)
LastFrom(s, c, i) ==
    IF i = 0 THEN 0
    ELSE IF s[i] = c THEN i
    ELSE LastFrom(s, c, i - 1)

LastIndexByte(s, c) == LastFrom(s, c, Len(s))

Slice(s, from, to) == SubSeq(s, from, to)

RECURSIVE SplitFrom(_, _, _, _)
\* the fields of s from index start on, i being the index under examination
SplitFrom(s, sep, start, i) ==
    IF i > Len(s) THEN <<Slice(s, start, Len(s))>>
    ELSE IF s[i] = sep
    THEN <<Slice(s, start, i - 1)>> \o SplitFrom(s, sep, i + 1, i + 1)
    ELSE SplitFrom(s, sep, start, i + 1)

\* strings.Split(s, sep) for a one-character sep: Split("", ",") is [""]
Split(s, sep) == SplitFrom(s, sep, 1, 1)

RECURSIVE Join(_, _)
\* strings.Join(list, sep): what a Protector does to build its return value
Join(list, sep) ==
    IF Len(list) = 0 THEN <<>>
    ELSE IF Len(list) = 1 THEN list[1]
    ELSE list[1] \o <<sep>> \o Join(Tail(list), sep)

----------------------------------------------------------------------------
(* net.SplitHostPort / net.JoinHostPort *)

ErrMissingPort == "missing port in address"
ErrTooManyColons == "too many colons in address"
ErrMissingBracket == "missing ']' in address"
ErrUnexpectedOpen == "unexpected '[' in address"
ErrUnexpectedClose == "unexpected ']' in address"
ErrNoResolvers == "no resolvers"
ErrCannotParse == "cannot parse resolver-ip"

AddrErr(why) == [host |-> <<>>, port |-> <<>>, err |-> why]

SplitHostPort(hostport) ==
    LET i == LastIndexByte(hostport, ":") IN
    IF i = 0 THEN AddrErr(ErrMissingPort)
    ELSE IF hostport[1] = "["
    THEN LET end == IndexByte(hostport, "]") IN
         IF end = 0 THEN AddrErr(ErrMissingBracket)
         ELSE IF end = Len(hostport) THEN AddrErr(ErrMissingPort)
         ELSE IF end + 1 # i
              THEN IF hostport[end + 1] = ":" THEN AddrErr(ErrTooManyColons)
                   ELSE AddrErr(ErrMissingPort)
         ELSE IF IndexByte(Slice(hostport, 2, Len(hostport)), "[") # 0
              THEN AddrErr(ErrUnexpectedOpen)
         ELSE IF IndexByte(Slice(hostport, end + 1, Len(hostport)), "]") # 0
              THEN AddrErr(ErrUnexpectedClose)
         ELSE [host |-> Slice(hostport, 2, end - 1),
               port |-> Slice(hostport, i + 1, Len(hostport)),
               err |-> Nil]
    ELSE LET host == Slice(hostport, 1, i - 1) IN
         IF IndexByte(host, ":") # 0 THEN AddrErr(ErrTooManyColons)
         ELSE IF IndexByte(hostport, "[") # 0 THEN AddrErr(ErrUnexpectedOpen)
         ELSE IF IndexByte(hostport, "]") # 0 THEN AddrErr(ErrUnexpectedClose)
         ELSE [host |-> host,
               port |-> Slice(hostport, i + 1, Len(hostport)),
               err |-> Nil]

JoinHostPort(host, port) ==
    IF IndexByte(host, ":") # 0
    THEN <<"[">> \o host \o <<"]", ":">> \o port
    ELSE host \o <<":">> \o port

----------------------------------------------------------------------------
(* net.ParseIP and IP.To4 *)

DecDigits == {"0", "1", "2", "3", "4", "5", "6", "7", "8", "9"}

DecVal(c) ==
    CASE c = "0" -> 0 [] c = "1" -> 1 [] c = "2" -> 2 [] c = "3" -> 3
      [] c = "4" -> 4 [] c = "5" -> 5 [] c = "6" -> 6 [] c = "7" -> 7
      [] c = "8" -> 8 [] c = "9" -> 9

HexLetters == {"a", "b", "c", "d", "e", "f", "A", "B", "C", "D", "E", "F"}

HexVal(c) ==
    CASE c \in DecDigits -> DecVal(c)
      [] c \in {"a", "A"} -> 10 [] c \in {"b", "B"} -> 11
      [] c \in {"c", "C"} -> 12 [] c \in {"d", "D"} -> 13
      [] c \in {"e", "E"} -> 14 [] c \in {"f", "F"} -> 15

Big == 16777215   \* 0xFFFFFF, the parsers' overflow guard

RECURSIVE DtoiFrom(_, _, _, _)
\* the decimal number of s that starts at index from: its value n, the
\* number c of characters it takes, and whether there is one
DtoiFrom(s, from, i, n) ==
    IF i <= Len(s) /\ s[i] \in DecDigits
    THEN IF n * 10 + DecVal(s[i]) >= Big
         THEN [n |-> Big, c |-> i - from, ok |-> FALSE]
         ELSE DtoiFrom(s, from, i + 1, n * 10 + DecVal(s[i]))
    ELSE IF i = from THEN [n |-> 0, c |-> 0, ok |-> FALSE]
    ELSE [n |-> n, c |-> i - from, ok |-> TRUE]

Dtoi(s, from) == DtoiFrom(s, from, from, 0)

RECURSIVE XtoiFrom(_, _, _, _)
\* the hexadecimal number of s that starts at index from
XtoiFrom(s, from, i, n) ==
    IF i <= Len(s) /\ s[i] \in (DecDigits \cup HexLetters)
    THEN IF n * 16 + HexVal(s[i]) >= Big
         THEN [n |-> 0, c |-> i - from, ok |-> FALSE]
         ELSE XtoiFrom(s, from, i + 1, n * 16 + HexVal(s[i]))
    ELSE IF i = from THEN [n |-> 0, c |-> 0, ok |-> FALSE]
    ELSE [n |-> n, c |-> i - from, ok |-> TRUE]

Xtoi(s, from) == XtoiFrom(s, from, from, 0)

NoOctets == [ok |-> FALSE, p |-> <<>>]

\* parseIPv4 on the part of s from index pos on, p the octets read so far
ParseV4Loop[s \in Seq(STRING), pos \in Nat, p \in Seq(Nat)] ==
    IF Len(p) = 4
    THEN (IF pos <= Len(s) THEN NoOctets ELSE [ok |-> TRUE, p |-> p])
    ELSE IF pos > Len(s) THEN NoOctets
    ELSE IF Len(p) > 0 /\ s[pos] # "." THEN NoOctets
    ELSE LET from == IF Len(p) > 0 THEN pos + 1 ELSE pos
             d == Dtoi(s, from) IN
         IF ~d.ok \/ d.n > 255 THEN NoOctets
         ELSE IF d.c > 1 /\ s[from] = "0" THEN NoOctets
         ELSE ParseV4Loop[s, from + d.c, Append(p, d.n)]

\* the four octets of the dotted quad that s is from index pos on
ParseIPv4Octets(s, pos) == ParseV4Loop[s, pos, <<>>]

\* a parsed IP is kept in its 16-byte form, as eight 16-bit groups
NoIP == [ok |-> FALSE, ip |-> <<>>]

V4InV6(p) == <<0, 0, 0, 0, 0, 65535, p[1] * 256 + p[2], p[3] * 256 + p[4]>>

ParseIPv4(s) ==
    LET Result(r) == IF ~r.ok THEN NoIP ELSE [ok |-> TRUE, ip |-> V4InV6(r.p)]
    IN  Result(ParseIPv4Octets(s, 1))

Zeros(n) == [k \in 1..n |-> 0]

NoGroups == [ok |-> FALSE, g |-> <<>>, e |-> -1, pos |-> 0]

\* the loop of parseIPv6 on the part of s from index pos on; g: the groups
\* read so far, e: the number of groups before the ellipsis (-1 when there is
\* none); pos of the result is where the loop stopped reading
ParseV6Loop[s \in Seq(STRING), pos \in Nat, g \in Seq(Nat), e \in Int] ==
    IF Len(g) >= 8 THEN [ok |-> TRUE, g |-> g, e |-> e, pos |-> pos]
    ELSE
    LET x == Xtoi(s, pos)
        after == pos + x.c IN
    IF ~x.ok \/ x.n > 65535 THEN NoGroups
    ELSE IF after <= Len(s) /\ s[after] = "."
    THEN IF e < 0 /\ Len(g) # 6 THEN NoGroups
         ELSE IF Len(g) + 2 > 8 THEN NoGroups
         ELSE LET Trailing(r) ==
                      IF ~r.ok THEN NoGroups
                      ELSE [ok |-> TRUE,
                            g |-> g \o <<r.p[1] * 256 + r.p[2],
                                         r.p[3] * 256 + r.p[4]>>,
                            e |-> e, pos |-> Len(s) + 1]
              IN  Trailing(ParseIPv4Octets(s, pos))
    ELSE IF after > Len(s)
    THEN [ok |-> TRUE, g |-> Append(g, x.n), e |-> e, pos |-> after]
    ELSE IF s[after] # ":" \/ after = Len(s) THEN NoGroups
    ELSE IF s[after + 1] = ":"
    THEN IF e >= 0 THEN NoGroups
         ELSE IF after + 1 = Len(s)
         THEN [ok |-> TRUE, g |-> Append(g, x.n), e |-> Len(g) + 1,
               pos |-> after + 2]
         ELSE ParseV6Loop[s, after + 2, Append(g, x.n), Len(g) + 1]
    ELSE ParseV6Loop[s, after + 1, Append(g, x.n), e]

ParseIPv6(s) ==
    LET lead == Len(s) >= 2 /\ s[1] = ":" /\ s[2] = ":" IN
    IF lead /\ Len(s) = 2 THEN [ok |-> TRUE, ip |-> Zeros(8)]
    ELSE LET Result(r) ==
                 IF ~r.ok THEN NoIP
                 ELSE IF r.pos <= Len(s) THEN NoIP
                 ELSE IF Len(r.g) < 8
                      THEN IF r.e < 0 THEN NoIP
                           ELSE [ok |-> TRUE,
                                 ip |-> SubSeq(r.g, 1, r.e)
                                        \o Zeros(8 - Len(r.g))
                                        \o SubSeq(r.g, r.e + 1, Len(r.g))]
                 ELSE IF r.e >= 0 THEN NoIP
                 ELSE [ok |-> TRUE, ip |-> r.g]
         IN  Result(ParseV6Loop[s, IF lead THEN 3 ELSE 1, <<>>,
                                IF lead THEN 0 ELSE -1])

RECURSIVE ParseIPFrom(_, _)
ParseIPFrom(s, i) ==
    IF i > Len(s) THEN NoIP
    ELSE IF s[i] = "." THEN ParseIPv4(s)
    ELSE IF s[i] = ":" THEN ParseIPv6(s)
    ELSE ParseIPFrom(s, i + 1)

\* net.ParseIP: ok is FALSE where Go returns nil
ParseIP(s) == ParseIPFrom(s, 1)

\* IP.To4() != nil: the address has a 4-byte representation
To4NotNil(parsed) == SubSeq(parsed.ip, 1, 6) = <<0, 0, 0, 0, 0, 65535>>

\* parsed != nil && (parsed.To4() != nil) == wantV4
ParsedAs(parsed, wantV4) == parsed.ok /\ To4NotNil(parsed) = wantV4

----------------------------------------------------------------------------
(* protect.go: pure functions *)

RECURSIVE scanAnyFamily(_, _)
\* scan without the family test: the first entry that parses
scanAnyFamily(ips, wantV4) ==
    IF Len(ips) = 0 THEN <<>>
    ELSE IF ParseIP(Head(ips)).ok THEN Head(ips)
    ELSE scanAnyFamily(Tail(ips), wantV4)

RECURSIVE scan(_, _)
\* the first entry of ips that parses and is of the wanted family, else ""
scan(ips, wantV4) ==
    IF Len(ips) = 0 THEN <<>>
    ELSE IF ParsedAs(ParseIP(Head(ips)), wantV4) THEN Head(ips)
    ELSE scan(Tail(ips), wantV4)

\* replaceIP that always takes the head of the list
replaceIPFirst(addr, ips) ==
    LET WithIP(hp, origip) ==
            IF ~origip.ok THEN [addr |-> <<>>, err |-> ErrCannotParse]
            ELSE [addr |-> JoinHostPort(ips[1], hp.port), err |-> Nil]
        WithHostPort(hp) ==
            IF hp.err # Nil THEN [addr |-> <<>>, err |-> hp.err]
            ELSE WithIP(hp, ParseIP(hp.host))
    IN  IF Len(ips) = 0 THEN [addr |-> <<>>, err |-> ErrNoResolvers]
        ELSE WithHostPort(SplitHostPort(addr))

\* replaceIP that keeps the original host when no entry is of its family
replaceIPKeepHost(addr, ips) ==
    LET WithNewIP(hp, newIP) ==
            [addr |-> JoinHostPort(IF newIP = <<>> THEN hp.host ELSE newIP,
                                   hp.port),
             err |-> Nil]
        WithIP(hp, origip) ==
            IF ~origip.ok THEN [addr |-> <<>>, err |-> ErrCannotParse]
            ELSE WithNewIP(hp, scan(ips, To4NotNil(origip)))
        WithHostPort(hp) ==
            IF hp.err # Nil THEN [addr |-> <<>>, err |-> hp.err]
            ELSE WithIP(hp, ParseIP(hp.host))
    IN  IF Len(ips) = 0 THEN [addr |-> <<>>, err |-> ErrNoResolvers]
        ELSE WithHostPort(SplitHostPort(addr))

\* WithHostPort, WithIP and WithNewIP are the rest of the function after
\* net.SplitHostPort, net.ParseIP and scan have returned hp, origip and newIP
replaceIP(addr, ips) ==
    LET WithNewIP(hp, newIP) ==
            [addr |-> JoinHostPort(IF newIP = <<>> THEN ips[1] ELSE newIP,
                                   hp.port),
             err |-> Nil]
        WithIP(hp, origip) ==
            IF ~origip.ok THEN [addr |-> <<>>, err |-> ErrCannotParse]
            ELSE WithNewIP(hp, scan(ips, To4NotNil(origip)))
        WithHostPort(hp) ==
            IF hp.err # Nil THEN [addr |-> <<>>, err |-> hp.err]
            ELSE WithIP(hp, ParseIP(hp.host))
    IN  IF Len(ips) = 0 THEN [addr |-> <<>>, err |-> ErrNoResolvers]
        ELSE WithHostPort(SplitHostPort(addr))

----------------------------------------------------------------------------
(* Inputs *)

V4A == <<"1", "0", ".", "0", ".", "0", ".", "1">>
V4B == <<"1", "0", ".", "0", ".", "0", ".", "2">>
V6A == <<"2", "0", "0", "1", ":", "d", "b", "8", ":", ":", "1">>
V6B == <<":", ":", "1">>
Mapped == <<":", ":", "f", "f", "f", "f", ":">> \o V4A
Bad == <<"b", "a", "d">>
Bracketed == <<"[", ":", ":", "1", "]">>
HostName == <<"h", "o", "s", "t">>
Empty == <<>>
Quad8 == <<"8", ".", "8", ".", "8", ".", "8">>
Port53 == <<"5", "3">>
Port853 == <<"8", "5", "3">>

\* resolver-list entries a Protector may hand over
Entries == {V4A, V4B, V6A, Mapped, Bad, Bracketed, Empty}

\* the family of each entry, written down independently of ParseIP
Family(e) ==
    CASE e \in {V4A, V4B, Mapped, Quad8} -> "v4"
      [] e \in {V6A, V6B} -> "v6"
      [] OTHER -> "none"

Lists(n) == UNION {[1..k -> Entries] : k \in 0..n}

\* transport addresses handed to replaceIP / the resolver dial; host and port
\* are the intended parts, ok tells whether text is a well-formed host:port
Targets ==
    { [text |-> Quad8 \o <<":">> \o Port53, host |-> Quad8, port |-> Port53,
       ok |-> TRUE],
      [text |-> <<"[">> \o V6B \o <<"]", ":">> \o Port853, host |-> V6B,
       port |-> Port853, ok |-> TRUE],
      [text |-> <<"[">> \o Mapped \o <<"]", ":">> \o Port53, host |-> Mapped,
       port |-> Port53, ok |-> TRUE],
      [text |-> Quad8, host |-> Quad8, port |-> <<>>, ok |-> FALSE],
      [text |-> Bad \o <<":">> \o Port53, host |-> Bad, port |-> Port53,
       ok |-> TRUE],
      [text |-> HostName \o <<":">> \o Port853, host |-> HostName,
       port |-> Port853, ok |-> TRUE] }

----------------------------------------------------------------------------
(* protect.go: the control hook and the factories *)

Protector == "p"

MaxInt32 == 2147483647

\* int32(fd) of a uintptr descriptor: values above MaxInt32 wrap around
Int32(fd) ==
    IF fd <= MaxInt32 THEN fd ELSE ((fd - MaxInt32) - 1) - MaxInt32 - 1

LogFailed == "Failed to protect a socket"

\* a hook that never reaches Protect
makeControlNoProtect(p, fd, protectResult) ==
    [protect |-> <<>>, logged |-> <<>>, err |-> Nil]

\* a hook that turns a refused protection into an error of the operation
makeControlFatal(p, fd, protectResult) ==
    [protect |-> <<Int32(fd)>>,
     logged |-> IF ~protectResult THEN <<LogFailed>> ELSE <<>>,
     err |-> IF ~protectResult THEN LogFailed ELSE Nil]

\* One run of the hook built by makeControl(p) on descriptor fd, where
\* protectResult is what p.Protect returns: the descriptors Protect was
\* called with, the lines logged, and the error handed back to the runtime.
makeControl(p, fd, protectResult) ==
    [protect |-> <<Int32(fd)>>,
     logged |-> IF ~protectResult THEN <<LogFailed>> ELSE <<>>,
     err |-> Nil]

\* a function-valued field: unset, or a closure over the protector p
Unset == [set |-> FALSE, p |-> Nil]

Closure(p) == [set |-> TRUE, p |-> p]

\* a net.Dialer, reduced to the two fields the package populates: the Control
\* hook and the Resolver with its Dial override
DefaultDialer == [Control |-> Unset, Resolver |-> Unset]

DefaultListenConfig == [Control |-> Unset]

\* MakeDialer without the nil test
MakeDialerNoNilCheck(p) == [Control |-> Closure(p), Resolver |-> Closure(p)]

MakeDialer(p) ==
    IF p = Nil THEN DefaultDialer
    ELSE [Control |-> Closure(p), Resolver |-> Closure(p)]

MakeListenConfig(p) ==
    IF p = Nil THEN DefaultListenConfig
    ELSE [Control |-> Closure(p)]

\* a resolver dial that falls back to the address it was given
resolverDialerFallback(address, current) ==
    LET Return(ips, r) ==
            [getResolvers |-> 1,
             ips |-> ips,
             newAddress |-> r.addr,
             err |-> r.err,
             dial |-> TRUE,
             target |-> IF r.err = Nil THEN r.addr ELSE address]
        WithResolvers(ips) == Return(ips, replaceIP(address, ips))
    IN  WithResolvers(Split(current, ","))

\* The Resolver.Dial override of MakeDialer, up to its call of
\* d.DialContext: current is what p.GetResolvers() returns now; the result
\* tells whether d.DialContext is called (dial) and with what (target).
resolverDialer(address, current) ==
    LET Return(ips, r) ==
            [getResolvers |-> 1,
             ips |-> ips,
             newAddress |-> r.addr,
             err |-> r.err,
             dial |-> r.err = Nil,
             target |-> r.addr]
        WithResolvers(ips) == Return(ips, replaceIP(address, ips))
    IN  WithResolvers(Split(current, ","))

----------------------------------------------------------------------------
(* The net runtime around the package *)

\* What d.DialContext(address) does first: fail on a malformed address, open
\* a socket when the host is empty or an IP literal, and otherwise look the
\* name up, through d.Resolver.Dial when the dialer has one.
DialContext(d, address) ==
    LET WithHostPort(hp) ==
            IF hp.err # Nil THEN "failed"
            ELSE IF hp.host = <<>> \/ ParseIP(hp.host).ok THEN "socket"
            ELSE IF d.Resolver.set THEN "lookup"
            ELSE "socket"
    IN  WithHostPort(SplitHostPort(address))

Calls == 1..MaxCalls

\* what GetResolvers may return, call by call
ResolverLists == {<<>>, <<V6A, V4B>>, <<Bad>>}

ResolverStrings == {Join(l, ",") : l \in ResolverLists}

FirstFd == 3

\* nameserver addresses the resolver dial is called with
DialTargets == {t \in Targets : t.host \in {V6B, Bad} \/ ~t.ok}

\* addresses callers dial: an IP literal and a name that needs a lookup
UserTargets == {t \in Targets : t.ok /\ t.host \in {Quad8, HostName}}

IdleCall == [op |-> "idle", pc |-> "idle", depth |-> 0, attempts |-> <<>>]

FnIdle == [op |-> "none", target |-> <<>>, ips |-> <<>>, wantV4 |-> FALSE,
           found |-> <<>>, out |-> [addr |-> <<>>, err |-> Nil]]

Init ==
    /\ protector \in {Nil, Protector}
    /\ dialer = MakeDialer(protector)
    /\ listenCfg = MakeListenConfig(protector)
    /\ calls = [c \in Calls |-> IdleCall]
    /\ sockets = <<>>
    /\ nextFd = FirstFd
    /\ fn = FnIdle

\* goroutines are interchangeable: the idle one of lowest index starts next
NextIdle(c) ==
    /\ calls[c].pc = "idle"
    /\ \A b \in Calls : b < c => calls[b].pc # "idle"

\* a goroutine calls d.DialContext(ctx, network, t.text)
Dial(c, t) ==
    /\ NextIdle(c)
    /\ calls' = [calls EXCEPT ![c] =
                   [@ EXCEPT !.op = "dial", !.pc = DialContext(dialer, t.text)]]
    /\ UNCHANGED <<protector, dialer, listenCfg, sockets, nextFd, fn>>

\* a goroutine calls lc.Listen / lc.ListenPacket
Listen(c) ==
    /\ NextIdle(c)
    /\ calls' = [calls EXCEPT ![c] = [@ EXCEPT !.op = "listen", !.pc = "socket"]]
    /\ UNCHANGED <<protector, dialer, listenCfg, sockets, nextFd, fn>>

RECURSIVE SumAttempts(_)
SumAttempts(n) == IF n = 0 THEN 0 ELSE Len(calls[n].attempts) + SumAttempts(n - 1)

\* resolver-connection attempts made so far
TotalAttempts == SumAttempts(MaxCalls)

\* The Go resolver of d.Resolver opens a connection to nameserver t.text:
\* it calls Resolver.Dial, i.e. resolverDialer, which ends in d.DialContext;
\* current is what p.GetResolvers() returns to this call. A rewritten address
\* whose host is a name sends d.DialContext back into a lookup, from which
\* the resolver dial is entered again.
ResolverDial(c, t, current) ==
    /\ calls[c].pc = "lookup"
    /\ TotalAttempts < MaxAttempts
    /\ LET Returned(r) ==
               [calls EXCEPT ![c] =
                  [@ EXCEPT !.attempts = Append(@, [t |-> t, seen |-> current,
                                                    r |-> r]),
                            !.depth = @ + 1,
                            !.pc = IF r.dial THEN DialContext(dialer, r.target)
                                   ELSE "failed"]]
       IN  calls' = Returned(resolverDialer(t.text, current))
    /\ UNCHANGED <<protector, dialer, listenCfg, sockets, nextFd, fn>>

ConfigOf(c) == IF calls[c].op = "listen" THEN listenCfg ELSE dialer

\* the hook of a configuration whose Control field is unset: nothing runs
NoControl == [protect |-> <<>>, logged |-> <<>>, err |-> Nil]

\* The runtime creates the socket of the innermost dial (or of the listener)
\* and, before it connects or binds it, runs the configuration's Control hook
\* on it; protectResult is what p.Protect returns to the hook.
Socket(c, protectResult) ==
    /\ calls[c].pc = "socket"
    /\ nextFd < FirstFd + MaxSockets
    /\ LET fd == nextFd
           ctl == ConfigOf(c).Control
           h == IF ctl.set THEN makeControl(ctl.p, fd, protectResult)
                ELSE NoControl IN
       /\ sockets' = (fd :> [call |-> c, op |-> calls[c].op,
                             attempt |-> calls[c].depth,
                             protect |-> h.protect,
                             asked |-> [i \in 1..Len(h.protect) |-> protectResult],
                             logged |-> h.logged, ctlErr |-> h.err,
                             controlled |-> ctl.set, connected |-> FALSE])
                     @@ sockets
       /\ calls' = [calls EXCEPT ![c] =
                      [@ EXCEPT !.pc = IF h.err = Nil THEN "connect"
                                       ELSE "failed"]]
    /\ nextFd' = nextFd + 1
    /\ UNCHANGED <<protector, dialer, listenCfg, fn>>

CurrentFd(c) ==
    CHOOSE fd \in DOMAIN sockets :
        /\ sockets[fd].call = c
        /\ \A g \in DOMAIN sockets : sockets[g].call = c => g <= fd

\* connect (or bind/listen) completes on the socket; a resolver connection
\* lets the dial that needed the lookup go on to open its own socket
Connect(c) ==
    /\ calls[c].pc = "connect"
    /\ sockets' = [sockets EXCEPT ![CurrentFd(c)] = [@ EXCEPT !.connected = TRUE]]
    /\ calls' = [calls EXCEPT ![c] =
                   IF @.depth > 0
                   THEN [@ EXCEPT !.depth = @ - 1, !.pc = "socket"]
                   ELSE [@ EXCEPT !.pc = "done"]]
    /\ UNCHANGED <<protector, dialer, listenCfg, nextFd, fn>>

Next ==
    \/ \E c \in Calls, t \in UserTargets : Dial(c, t)
    \/ \E c \in Calls : Listen(c)
    \/ \E c \in Calls, t \in DialTargets, current \in ResolverStrings :
          ResolverDial(c, t, current)
    \/ \E c \in Calls, protectResult \in BOOLEAN : Socket(c, protectResult)
    \/ \E c \in Calls : Connect(c)

Spec == Init /\ [][Next]_vars

----------------------------------------------------------------------------
(* Direct calls of the pure functions, on drawn inputs *)

InitPure ==
    /\ protector = Nil
    /\ dialer = MakeDialer(protector)
    /\ listenCfg = MakeListenConfig(protector)
    /\ calls = [c \in Calls |-> IdleCall]
    /\ sockets = <<>>
    /\ nextFd = FirstFd
    /\ \E t \in Targets, ips \in Lists(MaxLen), w \in BOOLEAN :
          fn = [op |-> "none", target |-> t, ips |-> ips, wantV4 |-> w,
                found |-> <<>>, out |-> [addr |-> <<>>, err |-> Nil]]

CallScan ==
    /\ fn.op = "none"
    /\ fn' = [fn EXCEPT !.op = "scan", !.found = scan(fn.ips, fn.wantV4)]
    /\ UNCHANGED <<protector, dialer, listenCfg, calls, sockets, nextFd>>

CallReplaceIP ==
    /\ fn.op = "none"
    /\ fn' = [fn EXCEPT !.op = "replaceIP",
                        !.out = replaceIP(fn.target.text, fn.ips)]
    /\ UNCHANGED <<protector, dialer, listenCfg, calls, sockets, nextFd>>

NextPure == CallScan \/ CallReplaceIP

SpecPure == InitPure /\ [][NextPure]_vars

----------------------------------------------------------------------------
(* Properties *)

Attempts == {<<c, k>> : c \in Calls, k \in 1..MaxAttempts}

\* the resolver-connection attempts made so far, as <<goroutine, level>>
Made == {ck \in Attempts : ck[2] <= Len(calls[ck[1]].attempts)}

AttemptAt(ck) == calls[ck[1]].attempts[ck[2]]

\* the sockets opened for the connection of attempt ck
SocketsOf(ck) ==
    {fd \in DOMAIN sockets :
        sockets[fd].call = ck[1] /\ sockets[fd].attempt = ck[2]}

\* text is host:port, the host in brackets or not
IsHostPort(text, host, port) ==
    \/ text = host \o <<":">> \o port
    \/ text = <<"[">> \o host \o <<"]", ":">> \o port

\* the indices of the entries of ips that are addresses of family f
OfFamily(ips, f) == {i \in 1..Len(ips) : Family(ips[i]) = f}

FamilyName(wantV4) == IF wantV4 THEN "v4" ELSE "v6"

IsFirstOf(i, q) == i \in q /\ \A j \in q : i <= j

\* C1: with a non-nil Protector, Protect is invoked on each socket's own
\* descriptor at most once, and exactly once by the time connect/bind/listen
\* has completed on it.
C1_ProtectOnceBeforeUse ==
    protector # Nil =>
        \A fd \in DOMAIN sockets :
            /\ Len(sockets[fd].protect) <= 1
            /\ \A i \in 1..Len(sockets[fd].protect) : sockets[fd].protect[i] = fd
            /\ sockets[fd].connected => sockets[fd].protect = <<fd>>

\* two goroutines have each a connected, protected socket, one of them the
\* connection to a DNS resolver
C1_Witness ==
    /\ protector # Nil
    /\ \E f \in DOMAIN sockets, g \in DOMAIN sockets :
          /\ sockets[f].call # sockets[g].call
          /\ sockets[f].connected /\ sockets[g].connected
          /\ sockets[f].attempt > 0

\* C2: a false Protect does not fail the operation: the hook returns no
\* error, the goroutine goes on as after a true Protect, and one failure line
\* is logged for the socket (none after a true Protect).
C2_ProtectFailureNotFatal ==
    \A fd \in DOMAIN sockets :
        sockets[fd].controlled =>
            /\ sockets[fd].ctlErr = Nil
            /\ calls[sockets[fd].call].pc # "failed"
            /\ Len(sockets[fd].logged) =
                  (IF sockets[fd].asked = <<FALSE>> THEN 1 ELSE 0)

C2_Witness ==
    \E fd \in DOMAIN sockets :
        /\ sockets[fd].asked = <<FALSE>>
        /\ sockets[fd].connected
        /\ Len(sockets[fd].logged) = 1

\* C3: when GetResolvers returns the empty string, the resolver-connection
\* attempt fails with the no-resolvers error and dials nothing.
C3_EmptyStringIsNoResolvers ==
    \A ck \in Made :
        AttemptAt(ck).seen = <<>> =>
            /\ AttemptAt(ck).r.err = ErrNoResolvers
            /\ ~AttemptAt(ck).r.dial
            /\ SocketsOf(ck) = {}

\* C4: for a well-formed target with an IP-literal host and a non-empty list
\* holding an address of the host's family, replaceIP succeeds with the
\* earliest entry of that family as host and the original port.
C4_SameFamilyResolver ==
    (/\ fn.op = "replaceIP"
     /\ fn.target.ok
     /\ Family(fn.target.host) # "none"
     /\ OfFamily(fn.ips, Family(fn.target.host)) # {})
    => /\ fn.out.err = Nil
       /\ \E i \in 1..Len(fn.ips) :
             /\ IsFirstOf(i, OfFamily(fn.ips, Family(fn.target.host)))
             /\ SplitHostPort(fn.out.addr) =
                   [host |-> fn.ips[i], port |-> fn.target.port, err |-> Nil]

\* the chosen entry is not the head of the list
C4_Witness ==
    /\ fn.op = "replaceIP"
    /\ fn.target.ok
    /\ Family(fn.target.host) = "v6"
    /\ Len(fn.ips) >= 2
    /\ Family(fn.ips[1]) = "v4"
    /\ fn.out.err = Nil
    /\ SplitHostPort(fn.out.addr).host = fn.ips[2]

C6_ScanFirstMatch ==
    fn.op = "scan" =>
        LET q == OfFamily(fn.ips, FamilyName(fn.wantV4)) IN
        /\ q = {} <=> fn.found = <<>>
        /\ q # {} => \E i \in q : IsFirstOf(i, q) /\ fn.found = fn.ips[i]

\* an unparseable entry and one of the other family are passed over
C6_Witness ==
    /\ fn.op = "scan"
    /\ Len(fn.ips) >= 2
    /\ Family(fn.ips[1]) \notin {FamilyName(fn.wantV4)}
    /\ fn.found = fn.ips[2]
    /\ fn.found # fn.ips[1]

EntriesOf(s) ==
    IF s = <<>> THEN {<<>>}
    ELSE UNION {{l[i] : i \in 1..Len(l)} :
                   l \in {m \in ResolverLists : Join(m, ",") = s}}

C9_NilProtectorIsDefault ==
    /\ protector = Nil =>
          /\ dialer = DefaultDialer
          /\ listenCfg = DefaultListenConfig
          /\ \A fd \in DOMAIN sockets :
                sockets[fd].protect = <<>> /\ ~sockets[fd].controlled
          /\ Made = {}
    /\ protector # Nil =>
          /\ listenCfg = [Control |-> Closure(protector)]
          /\ \A c \in Calls : calls[c].op = "listen" => calls[c].attempts = <<>>

\* an unprotected dial of a name and an unprotected listen have completed
C9_Witness ==
    /\ protector = Nil
    /\ \E f \in DOMAIN sockets, g \in DOMAIN sockets :
          /\ sockets[f].op = "dial" /\ sockets[g].op = "listen"
          /\ sockets[f].connected /\ sockets[g].connected

\* C10: the resolver dial is never entered again from within the connection
\* it opens: the address it hands to the dialer has an IP-literal host.
C10_NoReentry ==
    \A c \in Calls : Len(calls[c].attempts) <= 1

====
